---- MODULE Spec2Model ----
(***************************************************************************)
(* Verification model of the MedKit component library.                     *)
(*                                                                         *)
(*   DataTable         virtualization window, row selection                *)
(*                     sort toggle, pagination controls                    *)
(*   MedicationSearch  debounced lookup with cancellation                  *)
(*   vitals utilities  validation, classification, BMI                     *)
(*   VitalSignsInput   zero-as-unset form state, unit toggles              *)
(*   date utilities    calculateAge                                        *)
(*   AppointmentCard   status progression, actions menu                    *)
(*   TimeSlotPicker    slot selection                                      *)
(*                                                                         *)
(* Every component is a React function component: its state is the         *)
(* useState/useRef cells plus the props the parent passes, and one action  *)
(* is one event handler (or timer / promise callback) together with the    *)
(* re-render and the effects that the state change triggers.               *)
(***************************************************************************)
EXTENDS Integers, Sequences, FiniteSets, TLC

VARIABLES
    \* ---- DataTable props
    data,                \* rows passed by the parent
    rowKey,              \* rowKey prop: Null, a field name, or a function
    loading,             \* loading prop
    virtualizeThreshold, \* virtualizeThreshold prop
    selMode,             \* selection prop: "none" (absent), "single", "multiple"
    selected,            \* selection.selected, owned by the parent
    \* ---- DataTable state
    scrollTop,           \* useState(0)
    containerHeight,     \* useState(600)
    \* ---- DataTable observation of the calls made to the parent
    lastCall,            \* the selection handler that ran last, if no prop changed since
    saRun,               \* consecutive select-all clicks, if no prop changed since
    \* ---- MedicationSearch props
    searchFn,            \* identity of the searchFn prop (a version number)
    recentSelections,    \* recentSelections prop
    maxResults,          \* maxResults prop
    \* ---- MedicationSearch state
    query,               \* useState('')
    results,             \* useState([])
    searchLoading,       \* the loading state of MedicationSearch, useState(false)
    isOpen,              \* useState(false)
    highlightedIndex,    \* useState(-1)
    debouncedQuery,      \* state of useDebounce(query, debounceMs)
    timerPending,        \* useDebounce has a timeout scheduled
    sinceChange,         \* time since query last changed, capped at DebounceTicks
    abortControllerRef,  \* abortControllerRef.current: a lookup id, 0 for null
    cleanupCtl,          \* controller captured by the effect's cleanup, 0 for none
    lookups,             \* searchFn promises not yet settled
    issued,              \* number of searchFn calls made
    \* ---- MedicationSearch observation
    burstId,             \* number of keystroke bursts begun
    appliedBursts,       \* bursts of which a lookup result has been applied
    lastOutcome,         \* the promise callback that ran in the last step
    \* ---- DataTable sorting and pagination props (owned by the parent)
    sorting,             \* sorting prop: Null (absent) or [column, direction]
    pagination,          \* pagination prop: Null (absent) or [page, pageSize, total]
    resetOnResize,       \* the parent's onPageSizeChange also sets page 1
    \* ---- DataTable observation of the header and pagination events
    navEvent,            \* the control used last, with the props it saw
    navCalls,            \* the callbacks that event invoked, in order
    sortRun,             \* consecutive clicks on one column header
    \* ---- VitalSignsInput state
    vitals,              \* useState({...DEFAULT_VITALS, ...initialValues})
    errors,              \* useState({}): field -> message
    \* ---- VitalSignsInput observation
    validated,           \* fields the last validation effect passed to validateVitalValue
    edits,               \* input events so far
    \* ---- vitals utilities called directly
    probe,               \* the last call: function, arguments and result
    \* ---- AppointmentCard props
    apStatus,            \* appointment.status
    apHandlers,          \* which of onStatusChange, onReschedule, onCancel are given
    \* ---- AppointmentCard state
    menuOpen,            \* useState(false)
    \* ---- AppointmentCard observation
    apEvent,             \* the control used last
    apCalls,             \* the callbacks that event invoked, in order
    primaryRun,          \* consecutive clicks on the primary button
    \* ---- TimeSlotPicker props
    availableSlots,      \* availableSlots prop
    slotsDisabled,       \* disabled prop
    selectedSlot,        \* id of the selectedSlot prop, 0 for none
    \* ---- TimeSlotPicker observation
    slotEvent,           \* the slot button clicked last
    slotCalls            \* the onSelect calls that click made

dtVars == <<data, rowKey, loading, virtualizeThreshold, selMode, selected,
            scrollTop, containerHeight, lastCall, saRun>>

msVars == <<searchFn, recentSelections, maxResults, query, results, searchLoading,
            isOpen, highlightedIndex, debouncedQuery, timerPending, sinceChange,
            abortControllerRef, cleanupCtl, lookups, issued,
            burstId, appliedBursts, lastOutcome>>

navVars == <<sorting, pagination, resetOnResize, navEvent, navCalls, sortRun>>

vsVars == <<vitals, errors, validated, edits, probe>>

apVars == <<apStatus, apHandlers, menuOpen, apEvent, apCalls, primaryRun>>

tsVars == <<availableSlots, slotsDisabled, selectedSlot, slotEvent, slotCalls>>

uiVars == <<apVars, tsVars>>

vars == <<dtVars, msVars, navVars, vsVars, uiVars>>

Null == "null"

----------------------------------------------------------------------------
(* Generic helpers                                                          *)

Max(a, b) == IF a >= b THEN a ELSE b
Min(a, b) == IF a <= b THEN a ELSE b

\* Math.floor(a / b) and Math.ceil(a / b) for a >= 0, b > 0
FloorDiv(a, b) == a \div b
CeilDiv(a, b) == (a + b - 1) \div b

Range(s) == {s[i] : i \in 1..Len(s)}

\* Array.prototype.filter
RECURSIVE Filter(_, _)
Filter(s, k) ==
    IF s = <<>> THEN <<>>
    ELSE IF Head(s) # k THEN <<Head(s)>> \o Filter(Tail(s), k)
    ELSE Filter(Tail(s), k)

\* Array.prototype.slice(from, to) with 0-based, end-exclusive indices
\* (from, to >= 0): empty when from >= min(to, length)
Slice(s, from, to) ==
    LET hi == Min(to, Len(s))
    IN  IF from >= hi THEN <<>> ELSE [i \in 1..(hi - from) |-> s[from + i]]

\* String(n) for a natural number
Digits == <<"0", "1", "2", "3", "4", "5", "6", "7", "8", "9">>
RECURSIVE NatToStr(_)
NatToStr(n) ==
    IF n < 10 THEN Digits[n + 1]
    ELSE NatToStr(n \div 10) \o Digits[(n % 10) + 1]

----------------------------------------------------------------------------
(* DataTable                                                                *)

ROW_HEIGHT == 41
OverscanBefore == 5
OverscanTotal == 10
DefaultThreshold == 100
DefaultContainerHeight == 600

\* Bounds of the model
MaxRows == 30          \* longest table of the virtualization runs
MaxSelRows == 3        \* longest table of the selection runs
MaxSelected == 3       \* longest selection list

\* String(row.id ?? index), rowKey(row), String(row[rowKey])
getRowKey(row, index, rk) ==
    IF rk = Null
    THEN (IF row.id # Null THEN row.id ELSE NatToStr(index))
    ELSE IF rk = "fn" THEN "k" \o (IF row.id # Null THEN row.id ELSE "undefined")
    ELSE (IF row.id # Null THEN row.id ELSE "undefined")

\* data.map((row, i) => getRowKey(row, i, rowKey))
RowKeys(d, rk) == [i \in 1..Len(d) |-> getRowKey(d[i], i - 1, rk)]

shouldVirtualizeOf(d, thr, ld) == Len(d) > thr /\ ~ld
shouldVirtualize == shouldVirtualizeOf(data, virtualizeThreshold, loading)

\* the useMemo of virtualState (only consulted when shouldVirtualize)
StartIndexOf(st) == Max(0, FloorDiv(st, ROW_HEIGHT) - OverscanBefore)
VisibleCountOf(ch) == CeilDiv(ch, ROW_HEIGHT) + OverscanTotal
EndIndexOf(n, st, ch) == Min(n, StartIndexOf(st) + VisibleCountOf(ch))

virtualState ==
    [totalHeight |-> Len(data) * ROW_HEIGHT,
     startIndex  |-> StartIndexOf(scrollTop),
     endIndex    |-> EndIndexOf(Len(data), scrollTop, containerHeight),
     offsetY     |-> StartIndexOf(scrollTop) * ROW_HEIGHT]

visibleRows ==
    IF shouldVirtualize
    THEN Slice(data, virtualState.startIndex, virtualState.endIndex)
    ELSE data

\* renderBody, virtualized branch: the extents of what is put in <tbody>
LeadingSpacer == IF virtualState.offsetY > 0 THEN virtualState.offsetY ELSE 0
TrailingSpacer ==
    IF virtualState.endIndex < Len(data)
    THEN (Len(data) - virtualState.endIndex) * ROW_HEIGHT
    ELSE 0
RenderedExtent == LeadingSpacer + Len(visibleRows) * ROW_HEIGHT + TrailingSpacer

\* el.clientHeight values the measurement of line 48 can return (0 under a
\* test DOM without layout; the container is styled 600px high)
ClientHeights == {0, 574, DefaultContainerHeight}

\* el.scrollTop is bounded by the scrollable extent the last render produced
MaxScrollTop == RenderedExtent
ScrollDeltas == {-10 * ROW_HEIGHT, -ROW_HEIGHT, -1, 1, ROW_HEIGHT, 10 * ROW_HEIGHT}

\* tables of the virtualization runs: n rows with ids "1".."n"
MkData(n) == [i \in 1..n |-> [id |-> NatToStr(i)]]
RowCounts == {0, 1, MaxRows \div 2, MaxRows - 1, MaxRows}

\* tables of the selection runs: rows with or without an id, keys may collide
RowValues == {[id |-> Null], [id |-> "1"], [id |-> "2"]}
SmallTables == UNION {[1..n -> RowValues] : n \in 0..MaxSelRows}

\* the tables the parent can pass next in the selection runs: the current
\* rows with the first one dropped or with one more row at the end
EditedTables ==
    (IF Len(data) > 0 THEN {Tail(data)} ELSE {}) \cup
    (IF Len(data) < MaxSelRows THEN {Append(data, r) : r \in RowValues} ELSE {})

\* keys the parent may hold in its selection, among them keys of no current row
KeyUniverse == {"0", "1", "9"}
CallerSelections == UNION {[1..n -> KeyUniverse] : n \in 0..2}

NoCall == [kind |-> "none", mode |-> "none", keys |-> <<>>, key |-> Null,
           prev |-> <<>>, arg |-> <<>>]
NoRun == [n |-> 0, fromAll |-> FALSE]

\* variant: data.some instead of data.every
isAllSelectedSome(d, rk, mode, sel) ==
    IF mode = "none" \/ Len(d) = 0 THEN FALSE
    ELSE \E i \in 1..Len(d) : getRowKey(d[i], i - 1, rk) \in Range(sel)

\* useMemo isAllSelected (lines 79-84)
isAllSelectedOf(d, rk, mode, sel) ==
    IF mode = "none" \/ Len(d) = 0 THEN FALSE
    ELSE \A i \in 1..Len(d) : getRowKey(d[i], i - 1, rk) \in Range(sel)
isAllSelected == isAllSelectedOf(data, rowKey, selMode, selected)

\* variant: select-all adds the row keys to the previous selection
SelectAllArgUnion(d, rk, mode, sel) ==
    IF isAllSelectedOf(d, rk, mode, sel) THEN <<>>
    ELSE sel \o SelectSeq(RowKeys(d, rk), LAMBDA k : k \notin Range(sel))

\* the argument handleSelectAll passes to onSelectionChange (lines 88-92)
SelectAllArg(d, rk, mode, sel) ==
    IF isAllSelectedOf(d, rk, mode, sel) THEN <<>> ELSE RowKeys(d, rk)

\* variant: a newly selected key is put in front
SelectRowArgPrepend(mode, sel, key) ==
    IF mode = "single"
    THEN (IF key \in Range(sel) THEN <<>> ELSE <<key>>)
    ELSE (IF key \in Range(sel) THEN Filter(sel, key) ELSE <<key>> \o sel)

\* variant: single mode only ever adds the clicked key to what is selected
SelectRowArgNoToggle(mode, sel, key) ==
    IF key \in Range(sel) THEN Filter(sel, key) ELSE Append(sel, key)

\* the argument handleSelectRow passes to onSelectionChange (lines 98-109)
SelectRowArg(mode, sel, key) ==
    IF mode = "single"
    THEN (IF key \in Range(sel) THEN <<>> ELSE <<key>>)
    ELSE (IF key \in Range(sel) THEN Filter(sel, key) ELSE Append(sel, key))

\* 0-based data indices of the rows renderBody materializes
RenderedIndices ==
    IF loading \/ Len(data) = 0 THEN {}
    ELSE IF shouldVirtualize
    THEN {virtualState.startIndex + i - 1 : i \in 1..Len(visibleRows)}
    ELSE 0..(Len(data) - 1)

\* the effect of lines 45-53, run after a render whose shouldVirtualize
\* differs from the previous one: measures the container when it turns on
MeasureEffect ==
    IF shouldVirtualize' /\ ~shouldVirtualize
    THEN containerHeight' \in ClientHeights
    ELSE containerHeight' = containerHeight

\* the parent passes new rows
SetData(d) ==
    /\ UNCHANGED <<msVars, navVars, vsVars, uiVars>>
    /\ d # data
    /\ data' = d
    /\ UNCHANGED <<rowKey, loading, virtualizeThreshold, selMode, selected, scrollTop>>
    /\ lastCall' = NoCall
    /\ saRun' = NoRun
    /\ MeasureEffect

\* the parent toggles the loading prop
SetLoading ==
    /\ UNCHANGED <<msVars, navVars, vsVars, uiVars>>
    /\ loading' = ~loading
    /\ UNCHANGED <<data, rowKey, virtualizeThreshold, selMode, selected, scrollTop>>
    /\ lastCall' = NoCall
    /\ saRun' = NoRun
    /\ MeasureEffect

\* handleScroll (line 50): the listener exists only while virtualizing
Scroll(v) ==
    /\ UNCHANGED <<msVars, navVars, vsVars, uiVars>>
    /\ shouldVirtualize
    /\ v \in 0..MaxScrollTop
    /\ v # scrollTop
    /\ scrollTop' = v
    /\ UNCHANGED <<data, rowKey, loading, virtualizeThreshold, selMode, selected,
                   containerHeight, lastCall, saRun>>

\* the parent replaces its selection by itself
CallerSetSelection(s) ==
    /\ UNCHANGED <<msVars, navVars, vsVars, uiVars>>
    /\ selMode # "none"
    /\ s # selected
    /\ selected' = s
    /\ lastCall' = NoCall
    /\ saRun' = NoRun
    /\ UNCHANGED <<data, rowKey, loading, virtualizeThreshold, selMode, scrollTop,
                   containerHeight>>

\* click on the header checkbox (lines 120-129): handleSelectAll, and the
\* parent stores what it is handed (SelectableComponent, stories line 131)
SelectAll ==
    /\ UNCHANGED <<msVars, navVars, vsVars, uiVars>>
    /\ selMode = "multiple"
    /\ LET arg == SelectAllArg(data, rowKey, selMode, selected)
       IN  /\ lastCall' = [kind |-> "selectAll", mode |-> selMode,
                           keys |-> RowKeys(data, rowKey), key |-> Null,
                           prev |-> selected, arg |-> arg]
           /\ selected' = arg
    /\ saRun' = IF saRun.n = 1
                THEN [n |-> 2, fromAll |-> saRun.fromAll]
                ELSE [n |-> 1,
                      fromAll |-> Range(RowKeys(data, rowKey)) \subseteq Range(selected)]
    /\ UNCHANGED <<data, rowKey, loading, virtualizeThreshold, selMode, scrollTop,
                   containerHeight>>

\* change of a row's checkbox or radio (lines 228-238): handleSelectRow
SelectRow(i) ==
    /\ UNCHANGED <<msVars, navVars, vsVars, uiVars>>
    /\ selMode # "none"
    /\ i \in RenderedIndices
    /\ LET key == getRowKey(data[i + 1], i, rowKey)
           arg == SelectRowArg(selMode, selected, key)
       IN  /\ Len(arg) <= MaxSelected
           /\ lastCall' = [kind |-> "selectRow", mode |-> selMode,
                           keys |-> RowKeys(data, rowKey), key |-> key,
                           prev |-> selected, arg |-> arg]
           /\ selected' = arg
    /\ saRun' = NoRun
    /\ UNCHANGED <<data, rowKey, loading, virtualizeThreshold, selMode, scrollTop,
                   containerHeight>>

----------------------------------------------------------------------------
(* MedicationSearch                                                         *)

DefaultMaxResults == 10

\* Bounds of the model
DebounceTicks == 2     \* debounceMs, in clock ticks
MaxLookups == 2        \* searchFn calls per run
MaxFnVersions == 1     \* searchFn identities the parent passes after the first
MaxBursts == 2         \* keystroke bursts per run

Queries == {"", "a", "ab"}
\* what a searchFn promise can resolve to (medications by id)
ResultLists == {<<>>, <<1>>, <<1, 2>>}
\* the <<recentSelections, maxResults>> props of the runs
SearchProps == {<< <<>>, DefaultMaxResults >>, << <<3, 4>>, 1 >>}

NoOutcome == [kind |-> "none", id |-> 0, query |-> "", superseded |-> FALSE,
              applied |-> FALSE, hadResults |-> FALSE, burst |-> 0, final |-> FALSE,
              preSelect |-> FALSE]

\* lines 31-32
showRecent == Len(query) = 0 /\ Len(recentSelections) > 0
displayItems == IF showRecent THEN recentSelections ELSE Slice(results, 0, maxResults)

\* controller.abort() on the controller of lookup id (0: no controller)
AbortIn(ls, id) ==
    {IF l.id = id THEN [l EXCEPT !.aborted = TRUE] ELSE l : l \in ls}

\* variant: the promise callbacks do not look at the abort signal
ShouldApplyAlways(l) == TRUE

\* !controller.signal.aborted (lines 53 and 60)
ShouldApply(l) == ~l.aborted

\* a lookup is superseded once a later lookup was issued or the debounced
\* query is no longer the one it was issued for
Superseded(l) == l.id # issued \/ l.query # debouncedQuery

\* what is observed of the settlement of lookup l
Outcome(kind, l) ==
    [kind |-> kind, id |-> l.id, query |-> l.query, superseded |-> Superseded(l),
     applied |-> ShouldApply(l), hadResults |-> (results # <<>>),
     burst |-> l.burst, final |-> l.final, preSelect |-> l.preSelect]

\* the dependency list of the search effect (line 69)
SearchDeps(q, dq, fn) == <<dq, fn>>

\* The search effect (lines 35-69) run after a render in which its
\* dependencies changed: first the cleanup of the previous run (lines 66-68),
\* then the body with the new debounced query dq.
SearchEffect(dq) ==
    LET cleaned == AbortIn(lookups, cleanupCtl)
    IN  IF Len(dq) = 0
        THEN /\ results' = <<>>
             /\ searchLoading' = FALSE
             /\ lookups' = cleaned
             /\ cleanupCtl' = 0
             /\ UNCHANGED <<abortControllerRef, issued>>
        ELSE /\ issued < MaxLookups
             /\ lookups' = AbortIn(cleaned, abortControllerRef) \cup
                    {[id |-> issued + 1, query |-> dq, aborted |-> FALSE,
                      burst |-> burstId, final |-> (dq = query'),
                      preSelect |-> FALSE]}
             /\ abortControllerRef' = issued + 1
             /\ cleanupCtl' = issued + 1
             /\ issued' = issued + 1
             /\ searchLoading' = TRUE
             /\ UNCHANGED results

\* what every render does after a state or prop change: run the search
\* effect when its dependencies differ from those of the previous render
AfterRender ==
    IF SearchDeps(query', debouncedQuery', searchFn') #
       SearchDeps(query, debouncedQuery, searchFn)
    THEN SearchEffect(SearchDeps(query', debouncedQuery', searchFn')[1])
    ELSE UNCHANGED <<results, searchLoading, lookups, cleanupCtl, abortControllerRef,
                     issued>>

\* the effect of useDebounce after a render with a changed value: the
\* scheduled timeout is cleared and a new one is scheduled, delay from now
DebounceSchedule ==
    /\ timerPending' = TRUE
    /\ sinceChange' = 0

\* setQuery(q) and the re-render it causes
SetQuery(q) ==
    /\ query' = q
    /\ IF q # query
       THEN /\ DebounceSchedule
            /\ burstId' = IF burstId = 0 \/ sinceChange >= DebounceTicks
                          THEN burstId + 1 ELSE burstId
       ELSE UNCHANGED <<timerPending, sinceChange, burstId>>

\* the pending lookups of the burst in progress are for its final query only
\* as long as no further keystroke of that burst changes the query
Retag(ls, q) ==
    {IF l.burst = burstId' THEN [l EXCEPT !.final = (l.query = q)] ELSE l : l \in ls}

\* the lookups in flight when a medication is selected were issued before it
BeforeSelection(ls) == {[l EXCEPT !.preSelect = TRUE] : l \in ls}

\* onChange of the input (lines 151-154)
Type(q) ==
    /\ UNCHANGED <<dtVars, navVars, vsVars, uiVars>>
    /\ q # query
    /\ burstId < MaxBursts \/ (burstId > 0 /\ sinceChange < DebounceTicks)
    /\ SetQuery(q)
    /\ isOpen' = TRUE
    /\ lookups' = Retag(lookups, q)
    /\ lastOutcome' = NoOutcome
    /\ UNCHANGED <<searchFn, recentSelections, maxResults, results, searchLoading,
                   highlightedIndex, debouncedQuery, abortControllerRef,
                   cleanupCtl, issued, appliedBursts>>

\* passage of one unit of time
Tick ==
    /\ UNCHANGED <<dtVars, navVars, vsVars, uiVars>>
    /\ sinceChange < DebounceTicks
    /\ sinceChange' = sinceChange + 1
    /\ lastOutcome' = NoOutcome
    /\ UNCHANGED <<searchFn, recentSelections, maxResults, query, results,
                   searchLoading, isOpen, highlightedIndex, debouncedQuery,
                   timerPending, abortControllerRef, cleanupCtl, lookups,
                   issued, burstId, appliedBursts>>

\* the timeout of useDebounce fires: setDebouncedValue(value)
DebounceFire ==
    /\ UNCHANGED <<dtVars, navVars, vsVars, uiVars>>
    /\ timerPending
    /\ sinceChange >= DebounceTicks
    /\ timerPending' = FALSE
    /\ debouncedQuery' = query
    /\ UNCHANGED <<searchFn, recentSelections, maxResults, query, isOpen,
                   highlightedIndex, sinceChange, burstId, appliedBursts>>
    /\ lastOutcome' = NoOutcome
    /\ AfterRender

\* the parent re-renders with a searchFn of another identity
ChangeSearchFn ==
    /\ UNCHANGED <<dtVars, navVars, vsVars, uiVars>>
    /\ searchFn < MaxFnVersions
    /\ searchFn' = searchFn + 1
    /\ UNCHANGED <<recentSelections, maxResults, query, isOpen, highlightedIndex,
                   debouncedQuery, timerPending, sinceChange, burstId,
                   appliedBursts>>
    /\ lastOutcome' = NoOutcome
    /\ AfterRender

\* the .then callback of lookup l (lines 52-58)
LookupResolve(l, d) ==
    /\ UNCHANGED <<dtVars, navVars, vsVars, uiVars>>
    /\ l \in lookups
    /\ lookups' = lookups \ {l}
    /\ IF ShouldApply(l)
       THEN /\ results' = d
            /\ searchLoading' = FALSE
            /\ highlightedIndex' = -1
            /\ appliedBursts' = appliedBursts \cup {l.burst}
       ELSE UNCHANGED <<results, searchLoading, highlightedIndex, appliedBursts>>
    /\ lastOutcome' = Outcome("resolve", l)
    /\ UNCHANGED <<searchFn, recentSelections, maxResults, query, isOpen,
                   debouncedQuery, timerPending, sinceChange, abortControllerRef, cleanupCtl, issued, burstId>>

\* variant: a failed lookup leaves the displayed results alone
LookupRejectKeep(l) ==
    /\ UNCHANGED <<dtVars, navVars, vsVars, uiVars>>
    /\ l \in lookups
    /\ lookups' = lookups \ {l}
    /\ IF ShouldApply(l)
       THEN /\ searchLoading' = FALSE
            /\ UNCHANGED results
       ELSE UNCHANGED <<results, searchLoading>>
    /\ lastOutcome' = Outcome("reject", l)
    /\ UNCHANGED <<searchFn, recentSelections, maxResults, query, isOpen,
                   highlightedIndex, debouncedQuery, timerPending, sinceChange,
                   abortControllerRef, cleanupCtl, issued, burstId,
                   appliedBursts>>

\* the .catch callback of lookup l (lines 59-64)
LookupReject(l) ==
    /\ UNCHANGED <<dtVars, navVars, vsVars, uiVars>>
    /\ l \in lookups
    /\ lookups' = lookups \ {l}
    /\ IF ShouldApply(l)
       THEN /\ results' = <<>>
            /\ searchLoading' = FALSE
       ELSE UNCHANGED <<results, searchLoading>>
    /\ lastOutcome' = Outcome("reject", l)
    /\ UNCHANGED <<searchFn, recentSelections, maxResults, query, isOpen,
                   highlightedIndex, debouncedQuery, timerPending, sinceChange,
                   abortControllerRef, cleanupCtl, issued, burstId,
                   appliedBursts>>

\* handleSelect (lines 71-81); the debounced query is not touched, so the
\* search effect does not run
handleSelect(med) ==
    /\ UNCHANGED <<dtVars, navVars, vsVars, uiVars>>
    /\ burstId < MaxBursts \/ query = "" \/ sinceChange < DebounceTicks
    /\ SetQuery("")
    /\ results' = <<>>
    /\ isOpen' = FALSE
    /\ highlightedIndex' = -1
    /\ lookups' = BeforeSelection(Retag(lookups, ""))
    /\ lastOutcome' = NoOutcome
    /\ UNCHANGED <<searchFn, recentSelections, maxResults, searchLoading,
                   debouncedQuery, abortControllerRef, cleanupCtl, issued,
                   appliedBursts>>

\* onMouseDown of a rendered option (lines 240-243)
ClickOption(i) ==
    /\ isOpen
    /\ i \in 1..Len(displayItems)
    /\ handleSelect(displayItems[i])

\* handleKeyDown (lines 83-116)
KeyDown(key) ==
    /\ key # "Enter" => UNCHANGED <<dtVars, navVars, vsVars, uiVars>>
    /\ IF ~isOpen
       THEN /\ key \in {"ArrowDown", "ArrowUp"}
            /\ isOpen' = TRUE
            /\ lastOutcome' = NoOutcome
            /\ UNCHANGED <<searchFn, recentSelections, maxResults, query, results,
                           searchLoading, highlightedIndex, debouncedQuery,
                           timerPending, sinceChange, abortControllerRef,
                           cleanupCtl, lookups, issued, burstId, appliedBursts>>
       ELSE CASE key = "ArrowDown" ->
                 /\ highlightedIndex' = IF highlightedIndex < Len(displayItems) - 1
                                        THEN highlightedIndex + 1 ELSE 0
                 /\ lastOutcome' = NoOutcome
                 /\ UNCHANGED <<searchFn, recentSelections, maxResults, query, results,
                                searchLoading, isOpen, debouncedQuery, timerPending,
                                sinceChange, abortControllerRef,
                                cleanupCtl, lookups, issued, burstId, appliedBursts>>
              [] key = "ArrowUp" ->
                 /\ highlightedIndex' = IF highlightedIndex > 0
                                        THEN highlightedIndex - 1
                                        ELSE Len(displayItems) - 1
                 /\ lastOutcome' = NoOutcome
                 /\ UNCHANGED <<searchFn, recentSelections, maxResults, query, results,
                                searchLoading, isOpen, debouncedQuery, timerPending,
                                sinceChange, abortControllerRef,
                                cleanupCtl, lookups, issued, burstId, appliedBursts>>
              [] key = "Enter" ->
                 /\ highlightedIndex >= 0
                 /\ highlightedIndex < Len(displayItems)
                 /\ handleSelect(displayItems[highlightedIndex + 1])
              [] key = "Escape" ->
                 /\ isOpen' = FALSE
                 /\ highlightedIndex' = -1
                 /\ lastOutcome' = NoOutcome
                 /\ UNCHANGED <<searchFn, recentSelections, maxResults, query, results,
                                searchLoading, debouncedQuery, timerPending,
                                sinceChange, abortControllerRef,
                                cleanupCtl, lookups, issued, burstId, appliedBursts>>

\* handleFocus (lines 127-129)
handleFocus ==
    /\ UNCHANGED <<dtVars, navVars, vsVars, uiVars>>
    /\ ~isOpen
    /\ isOpen' = TRUE
    /\ lastOutcome' = NoOutcome
    /\ UNCHANGED <<searchFn, recentSelections, maxResults, query, results,
                   searchLoading, highlightedIndex, debouncedQuery, timerPending,
                   sinceChange, abortControllerRef, cleanupCtl, lookups,
                   issued, burstId, appliedBursts>>

\* handleBlur (lines 131-136) with focus leaving the component, and the
\* timeout it schedules: 150ms after any blur the dropdown is closed
handleBlur ==
    /\ UNCHANGED <<dtVars, navVars, vsVars, uiVars>>
    /\ isOpen
    /\ isOpen' = FALSE
    /\ lastOutcome' = NoOutcome
    /\ UNCHANGED <<searchFn, recentSelections, maxResults, query, results,
                   searchLoading, highlightedIndex, debouncedQuery, timerPending,
                   sinceChange, abortControllerRef, cleanupCtl, lookups, issued,
                   burstId, appliedBursts>>

\* MedicationSearch after its first render and effects: useDebounce has
\* scheduled its first timeout, the search effect saw an empty query
InitSearchWith(props) ==
    /\ searchFn = 0
    /\ \E p \in props : recentSelections = p[1] /\ maxResults = p[2]
    /\ query = ""
    /\ results = <<>>
    /\ searchLoading = FALSE
    /\ isOpen = FALSE
    /\ highlightedIndex = -1
    /\ debouncedQuery = ""
    /\ timerPending = TRUE
    /\ sinceChange = 0
    /\ abortControllerRef = 0
    /\ cleanupCtl = 0
    /\ lookups = {}
    /\ issued = 0
    /\ burstId = 0
    /\ appliedBursts = {}
    /\ lastOutcome = NoOutcome

----------------------------------------------------------------------------
\* DataTable: sort toggle and pagination controls

\* bounds
MaxPage == 6           \* largest page number the parent starts on
MaxSortClicks == 4     \* length of a run of header clicks that is counted

\* columns prop; a ColumnDef without `sortable` is falsy like sortable: false
Columns == << [id |-> "name", sortable |-> TRUE],
              [id |-> "age",  sortable |-> TRUE],
              [id |-> "mrn",  sortable |-> FALSE] >>

Directions == {"asc", "desc"}

\* values of sorting.column: the column ids and one that matches no column
SortColumns == {Columns[i].id : i \in 1..Len(Columns)} \cup {"none"}

NoSorting == [present |-> FALSE, column |-> "", direction |-> "asc"]
SortingProps ==
    {NoSorting} \cup [present : {TRUE}, column : SortColumns, direction : Directions]

PageSizeOptions == {10, 25, 50, 100}
Totals == {0, 1, 9, 50, 101}

NoPagination == [present |-> FALSE, page |-> 1, pageSize |-> 10, total |-> 0]
PaginationProps ==
    {NoPagination} \cup [present : {TRUE}, page : 0..MaxPage,
                         pageSize : {10, 25}, total : Totals]

\* one invocation of a callback prop
OnSort(c, d) == [fn |-> "onSort", column |-> c, direction |-> d, n |-> 0]
OnPageChange(p) == [fn |-> "onPageChange", column |-> "", direction |-> "", n |-> p]
OnPageSizeChange(s) ==
    [fn |-> "onPageSizeChange", column |-> "", direction |-> "", n |-> s]

NoEvent == [kind |-> "none", column |-> "", control |-> "", size |-> 0]
NoSortRun == [column |-> "", n |-> 0, fresh |-> FALSE, first |-> "asc"]

\* mutants of newDir
NewDirAlwaysAsc(st, colId) == "asc"
NewDirSticky(st, colId) == IF st.column = colId THEN "desc" ELSE "asc"

\* handleSort: newDir
NewDir(st, colId) ==
    IF st.column = colId /\ st.direction = "asc" THEN "desc" ELSE "asc"

\* handleSort: the calls it makes
handleSort(st, col) ==
    IF ~st.present \/ ~col.sortable THEN <<>>
    ELSE << OnSort(col.id, NewDir(st, col.id)) >>

\* <th onClick={() => col.sortable && handleSort(col)}>
HeaderClickCalls(st, col) == IF col.sortable THEN handleSort(st, col) ELSE <<>>

\* floor variant of totalPages (mutant)
totalPagesFloor(pg) == IF pg.present THEN FloorDiv(pg.total, pg.pageSize) ELSE 0

\* const totalPages = pagination ? Math.ceil(total / pageSize) : 0
totalPagesOf(pg) == IF pg.present THEN CeilDiv(pg.total, pg.pageSize) ELSE 0
totalPages == totalPagesOf(pagination)

startItemOf(pg) == (pg.page - 1) * pg.pageSize + 1
endItemOf(pg) == Min(pg.page * pg.pageSize, pg.total)
startItem == startItemOf(pagination)
endItem == endItemOf(pagination)

PageControls == {"first", "previous", "next", "last"}

\* off-by-one variant of the disabled attribute (mutant)
ControlDisabledStrict(pg, ctl) ==
    IF ctl \in {"first", "previous"} THEN pg.page < 1
    ELSE pg.page > totalPagesOf(pg)

\* disabled={page <= 1} / disabled={page >= totalPages}
ControlDisabled(pg, ctl) ==
    IF ctl \in {"first", "previous"} THEN pg.page <= 1
    ELSE pg.page >= totalPagesOf(pg)

\* variant whose Next button asks for the current page (mutant)
ControlTargetStuck(pg, ctl) ==
    CASE ctl = "first" -> 1
      [] ctl = "previous" -> pg.page - 1
      [] ctl = "next" -> pg.page
      [] ctl = "last" -> totalPagesOf(pg)

\* the argument of onPageChange in each button's onClick
ControlTarget(pg, ctl) ==
    CASE ctl = "first" -> 1
      [] ctl = "previous" -> pg.page - 1
      [] ctl = "next" -> pg.page + 1
      [] ctl = "last" -> totalPagesOf(pg)

\* a disabled button dispatches no click
ControlCalls(pg, ctl) ==
    IF ~pg.present \/ ControlDisabled(pg, ctl) THEN <<>>
    ELSE << OnPageChange(ControlTarget(pg, ctl)) >>

\* variant that also asks for page 1 (mutant)
PageSizeCallsWithReset(pg, size) == << OnPageSizeChange(size), OnPageChange(1) >>

\* onChange={(e) => onPageSizeChange(Number(e.target.value))}
PageSizeCalls(pg, size) == << OnPageSizeChange(size) >>

\* the parent applies every call to the state it passes back as props
\* (SortableComponent, PaginatedComponent)
ApplyCall(st, c) ==
    CASE c.fn = "onSort" ->
           [st EXCEPT !.sorting = [present |-> TRUE, column |-> c.column,
                                   direction |-> c.direction]]
      [] c.fn = "onPageChange" ->
           [st EXCEPT !.pagination.page = c.n]
      [] c.fn = "onPageSizeChange" ->
           [st EXCEPT !.pagination.pageSize = c.n,
                      !.pagination.page = IF resetOnResize THEN 1 ELSE @]

RECURSIVE ApplyCalls(_, _)
ApplyCalls(st, calls) ==
    IF calls = <<>> THEN st
    ELSE ApplyCalls(ApplyCall(st, Head(calls)), Tail(calls))

ParentApplies(calls) ==
    LET st == ApplyCalls([sorting |-> sorting, pagination |-> pagination], calls)
    IN  /\ sorting' = st.sorting
        /\ pagination' = st.pagination

\* the run of clicks on one header, counted with its parity kept
NextSortRun(col, calls) ==
    IF calls = <<>> THEN NoSortRun
    ELSE IF sortRun.n > 0 /\ sortRun.column = col.id
         THEN [sortRun EXCEPT !.n = IF @ + 1 > MaxSortClicks THEN @ - 1 ELSE @ + 1]
         ELSE [column |-> col.id, n |-> 1,
               fresh |-> sorting.column # col.id,
               first |-> calls[1].direction]

\* a click on the header of column i
ClickHeader(i) ==
    LET col == Columns[i]
        calls == HeaderClickCalls(sorting, col)
    IN  /\ navEvent' = [NoEvent EXCEPT !.kind = "header", !.column = col.id]
        /\ navCalls' = calls
        /\ ParentApplies(calls)
        /\ sortRun' = NextSortRun(col, calls)
        /\ UNCHANGED <<resetOnResize, dtVars, msVars, vsVars, uiVars>>

\* a click on one of the four pagination buttons
ClickPageControl(ctl) ==
    LET calls == ControlCalls(pagination, ctl)
    IN  /\ pagination.present
        /\ navEvent' = [NoEvent EXCEPT !.kind = "page", !.control = ctl]
        /\ navCalls' = calls
        /\ ParentApplies(calls)
        /\ sortRun' = NoSortRun
        /\ UNCHANGED <<resetOnResize, dtVars, msVars, vsVars, uiVars>>

\* choosing another option of the rows-per-page select
ChangePageSize(size) ==
    LET calls == PageSizeCalls(pagination, size)
    IN  /\ pagination.present
        /\ size \in PageSizeOptions \ {pagination.pageSize}
        /\ navEvent' = [NoEvent EXCEPT !.kind = "pageSize", !.size = size]
        /\ navCalls' = calls
        /\ ParentApplies(calls)
        /\ sortRun' = NoSortRun
        /\ UNCHANGED <<resetOnResize, dtVars, msVars, vsVars, uiVars>>

----------------------------------------------------------------------------
\* vitals utilities.  Every quantity is held in tenths of its unit (98.6
\* degrees is 986), which is exact for the one-decimal values of VITAL_RANGES
\* and for the results of toFixed(1).

\* bounds
ProbeSlack == 1        \* how far around each range bound the probed values go
MaxEdits == 3          \* input events per run of the form

Abs(a) == IF a >= 0 THEN a ELSE -a

\* Number(x.toFixed(1)) of the quotient a / b (b > 0), in tenths:
\* nearest integer, a half goes away from zero
RoundDiv(a, b) ==
    LET q == Abs(a) \div b
        r == Abs(a) % b
        n == IF 2 * r >= b THEN q + 1 ELSE q
    IN  IF a >= 0 THEN n ELSE -n

\* one step of the long division of w * 10^6 by d: <<quotient, remainder>>
\* of a hundred times the value
ScaleStep(qr, d) == <<qr[1] * 100 + (qr[2] * 100) \div d, (qr[2] * 100) % d>>

\* Number((weightKg / (heightM * heightM)).toFixed(1)) in tenths, from tenths
\* of a kilogram and of a centimetre: w * 10^6 / h^2 to the nearest integer
BmiTenths(w, h) ==
    LET d == h * h
        s == ScaleStep(ScaleStep(ScaleStep(<<w \div d, w % d>>, d), d), d)
    IN  IF 2 * s[2] >= d THEN s[1] + 1 ELSE s[1]

\* a JavaScript value given where a number is expected
Num(v) == [kind |-> "number", v |-> v]
Undefined == [kind |-> "undefined", v |-> 0]
NaN == [kind |-> "NaN", v |-> 0]

RangeOf(mn, mx, hasNormal, nmn, nmx, u) ==
    [min |-> mn, max |-> mx, hasNormal |-> hasNormal,
     normalMin |-> nmn, normalMax |-> nmx, unit |-> u]

VITAL_RANGES ==
    [bloodPressureSystolic  |-> RangeOf(700, 2000, TRUE, 900, 1400, "mmHg"),
     bloodPressureDiastolic |-> RangeOf(400, 1300, TRUE, 600, 900, "mmHg"),
     heartRate              |-> RangeOf(300, 2500, TRUE, 600, 1000, "bpm"),
     temperatureF           |-> RangeOf(900, 1100, TRUE, 970, 995, "F"),
     temperatureC           |-> RangeOf(322, 433, TRUE, 361, 375, "C"),
     respiratoryRate        |-> RangeOf(80, 400, TRUE, 120, 200, "breaths/min"),
     oxygenSaturation       |-> RangeOf(700, 1000, TRUE, 950, 1000, "%"),
     weightLb               |-> RangeOf(10, 10000, FALSE, 0, 0, "lb"),
     weightKg               |-> RangeOf(5, 4500, FALSE, 0, 0, "kg"),
     heightIn               |-> RangeOf(100, 1080, FALSE, 0, 0, "in"),
     heightCm               |-> RangeOf(250, 2750, FALSE, 0, 0, "cm"),
     painLevel              |-> RangeOf(0, 100, TRUE, 0, 30, "")]

RangeKeys == DOMAIN VITAL_RANGES

\* variant that cuts the second decimal off instead of rounding (mutant)
convertTemperatureTruncating(value, from) ==
    IF from = "F" THEN ((value - 320) * 5) \div 9
    ELSE (value * 9 + 1600) \div 5

convertTemperature(value, from) ==
    IF from = "F" THEN RoundDiv((value - 320) * 5, 9)
    ELSE RoundDiv(value * 9 + 1600, 5)

\* 0.453592 = 56699 / 125000
convertWeight(value, from) ==
    IF from = "lb" THEN RoundDiv(value * 56699, 125000)
    ELSE RoundDiv(value * 125000, 56699)

\* inches (up to 300.0) whose centimetres end in a 5 at the second decimal
\* and whose double product with 2.54 lies just below it: toFixed(1) takes
\* the lower tenth there (2.5 in gives 6.3 cm, where 12.5 in gives 31.8 cm)
HalfDownInches == {25, 225, 275, 325, 525, 675, 775, 1175, 1225, 1425, 1475,
                   1675, 1925, 2075, 2225, 2325, 2475, 2575, 2725, 2825, 2975}

convertHeight(value, from) ==
    IF from = "in"
    THEN RoundDiv(value * 254, 100) - (IF value \in HalfDownInches THEN 1 ELSE 0)
    ELSE RoundDiv(value * 100, 254)

NoBMI == [present |-> FALSE, v |-> 0]

\* variant without the guard on the height (mutant)
calculateBMIUnguarded(weightKg, heightCm) ==
    IF weightKg <= 0 THEN NoBMI
    ELSE IF heightCm = 0 THEN [present |-> TRUE, v |-> 0]
    ELSE [present |-> TRUE, v |-> BmiTenths(weightKg, heightCm)]

\* weightKg / (heightCm / 100)^2 to one decimal, null for a non-positive input
calculateBMI(weightKg, heightCm) ==
    IF weightKg <= 0 \/ heightCm <= 0 THEN NoBMI
    ELSE [present |-> TRUE, v |-> BmiTenths(weightKg, heightCm)]

\* variant whose comparisons include the boundary (mutant)
getBMICategoryInclusive(bmi) ==
    IF bmi <= 185 THEN "Underweight"
    ELSE IF bmi <= 250 THEN "Normal"
    ELSE IF bmi <= 300 THEN "Overweight"
    ELSE "Obese"

\* the label of a BMI given in tenths
getBMICategory(bmi) ==
    IF bmi < 185 THEN "Underweight"
    ELSE IF bmi < 250 THEN "Normal"
    ELSE IF bmi < 300 THEN "Overweight"
    ELSE "Obese"

\* the range a field resolves to
rangeKeyOf(field, unit) ==
    CASE field = "temperature" -> IF unit = "C" THEN "temperatureC" ELSE "temperatureF"
      [] field = "weight" -> IF unit = "kg" THEN "weightKg" ELSE "weightLb"
      [] field = "height" -> IF unit = "cm" THEN "heightCm" ELSE "heightIn"
      [] OTHER -> field

\* variant that takes the normal bounds for the limits (mutant)
isValueNormalInclusive(field, value, unit) ==
    LET rangeKey == rangeKeyOf(field, unit)
    IN  IF rangeKey \notin RangeKeys THEN "unknown"
        ELSE IF ~VITAL_RANGES[rangeKey].hasNormal THEN "unknown"
        ELSE IF value.kind # "number" THEN "normal"
        ELSE IF value.v <= VITAL_RANGES[rangeKey].normalMin THEN "low"
        ELSE IF value.v >= VITAL_RANGES[rangeKey].normalMax THEN "high"
        ELSE "normal"

\* a comparison with NaN is false, so NaN is neither low nor high
isValueNormal(field, value, unit) ==
    LET rangeKey == rangeKeyOf(field, unit)
    IN  IF rangeKey \notin RangeKeys THEN "unknown"
        ELSE IF ~VITAL_RANGES[rangeKey].hasNormal THEN "unknown"
        ELSE IF value.kind # "number" THEN "normal"
        ELSE IF value.v < VITAL_RANGES[rangeKey].normalMin THEN "low"
        ELSE IF value.v > VITAL_RANGES[rangeKey].normalMax THEN "high"
        ELSE "normal"

NoError == [present |-> FALSE, field |-> "", min |-> 0, max |-> 0, unit |-> ""]

\* { field, message }: the message is the template
\* `${field} must be between ${range.min} and ${range.max} ${range.unit}`,
\* kept as the values it interpolates
ErrorOf(field, range) ==
    [present |-> TRUE, field |-> field,
     min |-> range.min, max |-> range.max, unit |-> range.unit]

\* variant that validates against the normal bounds (mutant)
validateVitalValueNormal(field, value, unit) ==
    LET rangeKey == rangeKeyOf(field, unit)
    IN  IF value.kind # "number" THEN NoError
        ELSE IF rangeKey \notin RangeKeys THEN NoError
        ELSE IF VITAL_RANGES[rangeKey].hasNormal
                /\ (\/ value.v < VITAL_RANGES[rangeKey].normalMin
                    \/ value.v > VITAL_RANGES[rangeKey].normalMax)
             THEN ErrorOf(field, VITAL_RANGES[rangeKey])
        ELSE NoError

\* variant with inclusive limits (mutant)
validateVitalValueInclusive(field, value, unit) ==
    LET rangeKey == rangeKeyOf(field, unit)
    IN  IF value.kind # "number" THEN NoError
        ELSE IF rangeKey \notin RangeKeys THEN NoError
        ELSE IF \/ value.v <= VITAL_RANGES[rangeKey].min
                \/ value.v >= VITAL_RANGES[rangeKey].max
             THEN ErrorOf(field, VITAL_RANGES[rangeKey])
        ELSE NoError

validateVitalValue(field, value, unit) ==
    LET rangeKey == rangeKeyOf(field, unit)
    IN  IF value.kind # "number" THEN NoError
        ELSE IF rangeKey \notin RangeKeys THEN NoError
        ELSE IF \/ value.v < VITAL_RANGES[rangeKey].min
                \/ value.v > VITAL_RANGES[rangeKey].max
             THEN ErrorOf(field, VITAL_RANGES[rangeKey])
        ELSE NoError

----------------------------------------------------------------------------
\* VitalSignsInput

FieldOrder == <<"bloodPressureSystolic", "bloodPressureDiastolic", "heartRate",
                "temperature", "respiratoryRate", "oxygenSaturation",
                "weight", "height", "painLevel">>
Fields == Range(FieldOrder)

\* the fields with an <input type="number">; painLevel has the 0-10 buttons
NumberFields == Fields \ {"painLevel"}

DEFAULT_VITALS ==
    [bloodPressureSystolic |-> 0, bloodPressureDiastolic |-> 0, heartRate |-> 0,
     temperature |-> 0, temperatureUnit |-> "F", respiratoryRate |-> 0,
     oxygenSaturation |-> 0, weight |-> 0, weightUnit |-> "lb",
     height |-> 0, heightUnit |-> "in", painLevel |-> 0]

\* the unit each field is validated and classified with
unitOf(v, field) ==
    CASE field = "temperature" -> v.temperatureUnit
      [] field = "weight" -> v.weightUnit
      [] field = "height" -> v.heightUnit
      [] OTHER -> "undefined"

\* variant of the zero check that skips nothing (mutant)
IsUnsetNever(value) == FALSE

\* if (value === 0) continue;  /  if (!value || value === 0) return ...
IsUnset(value) == value = 0

\* validation effect: the fields passed to validateVitalValue
PassedToValidation(v) == {f \in Fields : ~IsUnset(v[f])}

\* validation effect: newErrors
newErrors(v) ==
    LET failing == {f \in PassedToValidation(v) :
                        validateVitalValue(f, Num(v[f]), unitOf(v, f)).present}
    IN  [f \in failing |-> validateVitalValue(f, Num(v[f]), unitOf(v, f))]

getInputClassName(v, errs, field) ==
    IF IsUnset(v[field]) THEN "input"
    ELSE IF field \in DOMAIN errs THEN "inputError"
    ELSE LET status == isValueNormal(field, Num(v[field]), unitOf(v, field))
         IN  IF status = "low" THEN "inputAbnormalLow"
             ELSE IF status = "high" THEN "inputAbnormalHigh"
             ELSE "input"

getAbnormalIndicator(v, field) ==
    IF IsUnset(v[field]) THEN "none"
    ELSE LET status == isValueNormal(field, Num(v[field]), unitOf(v, field))
         IN  IF status = "low" THEN "Low"
             ELSE IF status = "high" THEN "High"
             ELSE "none"

\* fields whose getAbnormalIndicator is rendered (weight and height have none)
IndicatorFields == Fields \ {"weight", "height"}

\* BMI calculation of the render
weightKgOf(v) ==
    IF v.weight > 0
    THEN (IF v.weightUnit = "kg" THEN v.weight ELSE convertWeight(v.weight, "lb"))
    ELSE 0
heightCmOf(v) ==
    IF v.height > 0
    THEN (IF v.heightUnit = "cm" THEN v.height ELSE convertHeight(v.height, "in"))
    ELSE 0
bmiOf(v) ==
    IF weightKgOf(v) > 0 /\ heightCmOf(v) > 0
    THEN calculateBMI(weightKgOf(v), heightCmOf(v))
    ELSE NoBMI

\* {bmi !== null && <div role="status" ...>}
bmiShown(v) == bmiOf(v).present

\* values typed into each number input: cleared, below the limit, in range
\* but abnormal, and (temperature 32, weight 0.1) values that convert to 0
TypedValues ==
    [bloodPressureSystolic  |-> {0, 690, 850, 1500},
     bloodPressureDiastolic |-> {0, 390, 950},
     heartRate              |-> {0, 290, 720, 3000},
     temperature            |-> {0, -50, 320, 986, 1000},
     respiratoryRate        |-> {0, 70, 100},
     oxygenSaturation       |-> {0, 600, 920},
     weight                 |-> {0, 1, 1500, 10000, 10010},
     height                 |-> {0, 50, 250, 700}]

PainLevels == {0, 2, 7}

InitialVitals ==
    {DEFAULT_VITALS,
     [DEFAULT_VITALS EXCEPT !.heartRate = 720, !.bloodPressureSystolic = 1200,
                            !.bloodPressureDiastolic = 800],
     [DEFAULT_VITALS EXCEPT !.temperature = 400, !.temperatureUnit = "C",
                            !.weight = 700, !.weightUnit = "kg",
                            !.height = 1750, !.heightUnit = "cm"]}

\* setVitals(next), the re-render and the validation effect it triggers
SetVitals(next) ==
    /\ edits < MaxEdits
    /\ vitals' = next
    /\ errors' = newErrors(next)
    /\ validated' = PassedToValidation(next)
    /\ edits' = edits + 1
    /\ UNCHANGED <<probe, dtVars, msVars, navVars, uiVars>>

\* handleNumberInput(field) with an input that parses to val ('' gives 0)
handleNumberInput(field, val) == SetVitals([vitals EXCEPT ![field] = val])

\* onClick={() => updateVital('painLevel', i)}
ClickPain(i) == SetVitals([vitals EXCEPT !.painLevel = i * 10])

toggleTempUnit ==
    SetVitals([vitals EXCEPT
        !.temperatureUnit = IF vitals.temperatureUnit = "F" THEN "C" ELSE "F",
        !.temperature = IF vitals.temperature > 0
                        THEN convertTemperature(vitals.temperature, vitals.temperatureUnit)
                        ELSE 0])

toggleWeightUnit ==
    SetVitals([vitals EXCEPT
        !.weightUnit = IF vitals.weightUnit = "lb" THEN "kg" ELSE "lb",
        !.weight = IF vitals.weight > 0
                   THEN convertWeight(vitals.weight, vitals.weightUnit)
                   ELSE 0])

toggleHeightUnit ==
    SetVitals([vitals EXCEPT
        !.heightUnit = IF vitals.heightUnit = "in" THEN "cm" ELSE "in",
        !.height = IF vitals.height > 0
                   THEN convertHeight(vitals.height, vitals.heightUnit)
                   ELSE 0])

----------------------------------------------------------------------------
\* the vitals utilities called directly, over probe inputs

\* the Date of getTime 0
NoDate == [y |-> 1970, m |-> 1, d |-> 1]

NoProbe == [fn |-> "none", done |-> TRUE, field |-> "", value |-> Undefined,
            unit |-> "", given |-> DEFAULT_VITALS, weightKg |-> 0, heightCm |-> 0,
            error |-> NoError, status |-> "", bmi |-> NoBMI,
            x |-> 0, label |-> "", celsius |-> 0, back |-> 0,
            dob |-> NoDate, referenceDate |-> NoDate, age |-> 0]

RangeBounds ==
    UNION {{VITAL_RANGES[k].min, VITAL_RANGES[k].max,
            VITAL_RANGES[k].normalMin, VITAL_RANGES[k].normalMax} : k \in RangeKeys}

ProbeValues ==
    {Undefined, NaN} \cup {Num(b + d) : b \in RangeBounds, d \in (-ProbeSlack)..ProbeSlack}

ProbeFields == Fields \cup RangeKeys \cup {"bogus"}
ProbeUnits == {"undefined", "F", "C", "lb", "kg", "in", "cm"}

BmiInputs == {b + d : b \in {0, 5, 700, 1750}, d \in (-ProbeSlack)..ProbeSlack}

\* BMI values around the category thresholds, in tenths
CategoryInputs ==
    {b + d : b \in {0, 185, 250, 300}, d \in (-ProbeSlack)..ProbeSlack}

\* Fahrenheit readings 95.0 to 105.0 in steps of 0.1
PlausibleFahrenheit == 950..1050

BmiVitals ==
    {[DEFAULT_VITALS EXCEPT !.weight = w, !.weightUnit = wu,
                            !.height = h, !.heightUnit = hu] :
        w \in {-10, 0, 1, 1500}, wu \in {"lb", "kg"},
        h \in {-10, 0, 1, 700}, hu \in {"in", "cm"}}

\* the calls to make: a function with its arguments, not yet applied
ProbeInputs ==
    {[NoProbe EXCEPT !.fn = fn, !.done = FALSE, !.field = f, !.value = v, !.unit = u] :
        fn \in {"validateVitalValue", "isValueNormal"},
        f \in ProbeFields, v \in ProbeValues, u \in ProbeUnits}
    \cup
    {[NoProbe EXCEPT !.fn = "calculateBMI", !.done = FALSE,
                     !.weightKg = w, !.heightCm = h] : w \in BmiInputs, h \in BmiInputs}
    \cup
    {[NoProbe EXCEPT !.fn = "render", !.done = FALSE, !.given = v] : v \in BmiVitals}
    \cup
    {[NoProbe EXCEPT !.fn = "getBMICategory", !.done = FALSE, !.x = b] :
        b \in CategoryInputs}
    \cup
    {[NoProbe EXCEPT !.fn = "convertTemperature", !.done = FALSE, !.x = t] :
        t \in PlausibleFahrenheit}

CallValidateVitalValue ==
    /\ probe.fn = "validateVitalValue" /\ ~probe.done
    /\ probe' = [probe EXCEPT !.done = TRUE,
                    !.error = validateVitalValue(probe.field, probe.value, probe.unit)]
    /\ UNCHANGED <<vitals, errors, validated, edits, dtVars, msVars, navVars, uiVars>>

CallIsValueNormal ==
    /\ probe.fn = "isValueNormal" /\ ~probe.done
    /\ probe' = [probe EXCEPT !.done = TRUE,
                    !.status = isValueNormal(probe.field, probe.value, probe.unit)]
    /\ UNCHANGED <<vitals, errors, validated, edits, dtVars, msVars, navVars, uiVars>>

CallCalculateBMI ==
    /\ probe.fn = "calculateBMI" /\ ~probe.done
    /\ probe' = [probe EXCEPT !.done = TRUE,
                    !.bmi = calculateBMI(probe.weightKg, probe.heightCm)]
    /\ UNCHANGED <<vitals, errors, validated, edits, dtVars, msVars, navVars, uiVars>>

CallGetBMICategory ==
    /\ probe.fn = "getBMICategory" /\ ~probe.done
    /\ probe' = [probe EXCEPT !.done = TRUE, !.label = getBMICategory(probe.x)]
    /\ UNCHANGED <<vitals, errors, validated, edits, dtVars, msVars, navVars, uiVars>>

\* convertTemperature(convertTemperature(x, 'F'), 'C')
CallConvertTemperatureTwice ==
    LET c == convertTemperature(probe.x, "F")
    IN  /\ probe.fn = "convertTemperature" /\ ~probe.done
        /\ probe' = [probe EXCEPT !.done = TRUE, !.celsius = c,
                                  !.back = convertTemperature(c, "C")]
        /\ UNCHANGED <<vitals, errors, validated, edits, dtVars, msVars, navVars,
                       uiVars>>

\* the BMI block of a render of VitalSignsInput holding the given vitals
RenderBMI ==
    /\ probe.fn = "render" /\ ~probe.done
    /\ probe' = [probe EXCEPT !.done = TRUE, !.bmi = bmiOf(probe.given)]
    /\ UNCHANGED <<vitals, errors, validated, edits, dtVars, msVars, navVars, uiVars>>

----------------------------------------------------------------------------
\* date utilities.  A Date is a UTC calendar day [y, m, d] at midnight and
\* getTime is counted in days since 1970-01-01, so that differences stay
\* whole days.

\* bounds
MaxAge == 4            \* years between the earliest and the latest date

IsLeapYear(y) == (y % 4 = 0 /\ y % 100 # 0) \/ y % 400 = 0

DaysInMonth(y, m) ==
    IF m = 2 THEN (IF IsLeapYear(y) THEN 29 ELSE 28)
    ELSE IF m \in {4, 6, 9, 11} THEN 30
    ELSE 31

\* leap years before year y
LeapYearsBefore(y) == (y - 1) \div 4 - (y - 1) \div 100 + (y - 1) \div 400

\* days from 1970-01-01 to the first day of year y
DaysBeforeYear(y) == 365 * (y - 1970) + LeapYearsBefore(y) - LeapYearsBefore(1970)

RECURSIVE DaysBeforeMonth(_, _)
DaysBeforeMonth(y, m) ==
    IF m = 1 THEN 0 ELSE DaysBeforeMonth(y, m - 1) + DaysInMonth(y, m - 1)

\* Date.prototype.getTime, in days
getTime(date) == DaysBeforeYear(date.y) + DaysBeforeMonth(date.y, date.m) + date.d - 1

\* new Date(t).getUTCFullYear() for t >= 0
getUTCFullYear(t) ==
    CHOOSE y \in 1970..(1970 + MaxAge + 2) :
        DaysBeforeYear(y) <= t /\ t < DaysBeforeYear(y + 1)

calculateAge(dob, referenceDate) ==
    LET ageDiffMs == getTime(referenceDate) - getTime(dob)
    IN  Abs(getUTCFullYear(ageDiffMs) - 1970)

\* days around the end of February, in the years 2000 to 2000 + MaxAge
Dates ==
    {date \in [y : 2000..(2000 + MaxAge), m : {2, 3}, d : {1, 28, 29}] :
        date.d <= DaysInMonth(date.y, date.m)}

AgeInputs ==
    {[NoProbe EXCEPT !.fn = "calculateAge", !.done = FALSE,
                     !.dob = b, !.referenceDate = r] :
        <<b, r>> \in {pair \in Dates \X Dates : getTime(pair[1]) <= getTime(pair[2])}}

CallCalculateAge ==
    /\ probe.fn = "calculateAge" /\ ~probe.done
    /\ probe' = [probe EXCEPT !.done = TRUE,
                    !.age = calculateAge(probe.dob, probe.referenceDate)]
    /\ UNCHANGED <<vitals, errors, validated, edits, dtVars, msVars, navVars, uiVars>>

----------------------------------------------------------------------------
\* AppointmentCard

Statuses == {"scheduled", "checked-in", "in-progress", "completed", "no-show",
             "cancelled"}

\* variant of the map that skips the check-in (mutant)
nextStatusSkip(status) ==
    CASE status = "scheduled" -> "in-progress"
      [] status = "checked-in" -> "in-progress"
      [] status = "in-progress" -> "completed"
      [] OTHER -> Null

\* nextStatusMap[appointment.status]
nextStatusOf(status) ==
    CASE status = "scheduled" -> "checked-in"
      [] status = "checked-in" -> "in-progress"
      [] status = "in-progress" -> "completed"
      [] OTHER -> Null

\* variant that takes only completed for terminal (mutant)
isTerminalCompletedOnly(status) == status = "completed"

isTerminalOf(status) == status = "completed" \/ status = "cancelled"
isTerminal == isTerminalOf(apStatus)

HandlerSets == [onStatusChange : BOOLEAN, onReschedule : BOOLEAN, onCancel : BOOLEAN]

MenuItems == {"no-show", "reschedule", "cancel"}

\* what is rendered: {!isTerminal && <footer>}, the primary button, the
\* "More actions" button, and each item of the open menu
FooterRendered == ~isTerminal
PrimaryRendered ==
    FooterRendered /\ nextStatusOf(apStatus) # Null /\ apHandlers.onStatusChange
MenuItemRendered(item) ==
    /\ FooterRendered
    /\ menuOpen
    /\ CASE item = "no-show" -> apHandlers.onStatusChange
         [] item = "reschedule" -> apHandlers.onReschedule
         [] item = "cancel" -> apHandlers.onCancel

ApCall(fn, arg) == [fn |-> fn, arg |-> arg]

\* the calls of each menu item's onClick
MenuItemCalls(item) ==
    CASE item = "no-show" -> << ApCall("onStatusChange", "no-show") >>
      [] item = "reschedule" -> << ApCall("onReschedule", "") >>
      [] item = "cancel" -> << ApCall("onCancel", "") >>

\* the caller stores a requested status and cancels on onCancel
StatusAfter(status, calls) ==
    IF calls = <<>> THEN status
    ELSE CASE calls[1].fn = "onStatusChange" -> calls[1].arg
           [] calls[1].fn = "onCancel" -> "cancelled"
           [] OTHER -> status

NoApEvent == [kind |-> "none", item |-> ""]
NoPrimaryRun == [from |-> "", n |-> 0]

\* a click on the primary button; its mousedown is outside the menu and
\* closes it
ClickPrimary ==
    LET calls == << ApCall("onStatusChange", nextStatusOf(apStatus)) >>
    IN  /\ PrimaryRendered
        /\ apEvent' = [NoApEvent EXCEPT !.kind = "primary"]
        /\ apCalls' = calls
        /\ apStatus' = StatusAfter(apStatus, calls)
        /\ menuOpen' = FALSE
        /\ primaryRun' = IF primaryRun.n > 0
                         THEN [primaryRun EXCEPT !.n = @ + 1]
                         ELSE [from |-> apStatus, n |-> 1]
        /\ UNCHANGED <<apHandlers, tsVars, dtVars, msVars, navVars, vsVars>>

\* onClick={() => setMenuOpen(!menuOpen)}
ClickMore ==
    /\ FooterRendered
    /\ apEvent' = [NoApEvent EXCEPT !.kind = "more"]
    /\ apCalls' = <<>>
    /\ menuOpen' = ~menuOpen
    /\ UNCHANGED <<apStatus, apHandlers, primaryRun, tsVars, dtVars, msVars,
                   navVars, vsVars>>

\* a click on an item of the open menu
ClickMenuItem(item) ==
    /\ MenuItemRendered(item)
    /\ apEvent' = [kind |-> "menu", item |-> item]
    /\ apCalls' = MenuItemCalls(item)
    /\ apStatus' = StatusAfter(apStatus, MenuItemCalls(item))
    /\ menuOpen' = FALSE
    /\ primaryRun' = NoPrimaryRun
    /\ UNCHANGED <<apHandlers, tsVars, dtVars, msVars, navVars, vsVars>>

\* handleClickOutside: a mousedown outside menuRef while the menu is open;
\* without the footer menuRef.current is null and nothing happens
MouseDownOutside ==
    /\ menuOpen
    /\ FooterRendered
    /\ apEvent' = [NoApEvent EXCEPT !.kind = "outside"]
    /\ apCalls' = <<>>
    /\ menuOpen' = FALSE
    /\ UNCHANGED <<apStatus, apHandlers, primaryRun, tsVars, dtVars, msVars,
                   navVars, vsVars>>

\* the parent passes an appointment with another status
CallerSetStatus(status) ==
    /\ status # apStatus
    /\ apStatus' = status
    /\ apEvent' = NoApEvent
    /\ apCalls' = <<>>
    /\ primaryRun' = NoPrimaryRun
    /\ UNCHANGED <<apHandlers, menuOpen, tsVars, dtVars, msVars, navVars, vsVars>>

----------------------------------------------------------------------------
\* TimeSlotPicker

\* bounds
MaxSlots == 3          \* most slots passed to the picker

\* slots 1..n, each available or not; the section a slot is shown in
\* (morning, afternoon, evening) does not enter its click handler
SlotLists ==
    UNION {{[i \in 1..n |-> [id |-> i, available |-> a[i]]] : a \in [1..n -> BOOLEAN]} :
              n \in 0..MaxSlots}

NoSlotEvent == [kind |-> "none", index |-> 0]

\* variant that looks at the slot only (mutant)
SlotClickCallsIgnoreDisabled(slot, disabled) ==
    IF slot.available THEN << slot >> ELSE <<>>

\* onClick: if (!isUnavailable && !disabled) onSelect(slot)
SlotClickCalls(slot, disabled) ==
    IF slot.available /\ ~disabled THEN << slot >> ELSE <<>>

\* a click on the button of slot i; the parent stores the slot it is given
ClickSlot(i) ==
    LET calls == SlotClickCalls(availableSlots[i], slotsDisabled)
    IN  /\ i \in DOMAIN availableSlots
        /\ slotEvent' = [kind |-> "click", index |-> i]
        /\ slotCalls' = calls
        /\ selectedSlot' = IF calls = <<>> THEN selectedSlot ELSE calls[1].id
        /\ UNCHANGED <<availableSlots, slotsDisabled, apVars, dtVars, msVars,
                       navVars, vsVars>>

\* the parent re-renders with the disabled prop flipped
CallerSetDisabled ==
    /\ slotsDisabled' = ~slotsDisabled
    /\ slotEvent' = NoSlotEvent
    /\ slotCalls' = <<>>
    /\ UNCHANGED <<availableSlots, selectedSlot, apVars, dtVars, msVars,
                   navVars, vsVars>>

----------------------------------------------------------------------------
\* mounting

InitNavIdle ==
    /\ sorting = NoSorting
    /\ pagination = NoPagination
    /\ resetOnResize = FALSE
    /\ navEvent = NoEvent
    /\ navCalls = <<>>
    /\ sortRun = NoSortRun

InitVitalsIdle ==
    /\ vitals = DEFAULT_VITALS
    /\ errors = newErrors(DEFAULT_VITALS)
    /\ validated = {}
    /\ edits = 0
    /\ probe = NoProbe

InitUiIdle ==
    /\ apStatus = "scheduled"
    /\ apHandlers = [onStatusChange |-> FALSE, onReschedule |-> FALSE,
                     onCancel |-> FALSE]
    /\ menuOpen = FALSE
    /\ apEvent = NoApEvent
    /\ apCalls = <<>>
    /\ primaryRun = NoPrimaryRun
    /\ availableSlots = <<>>
    /\ slotsDisabled = FALSE
    /\ selectedSlot = 0
    /\ slotEvent = NoSlotEvent
    /\ slotCalls = <<>>

\* the five components share no state: a run exercises one of them and the
\* others stay as mounted
InitDataTableIdle ==
    /\ data = <<>>
    /\ rowKey = Null
    /\ loading = FALSE
    /\ virtualizeThreshold = DefaultThreshold
    /\ selMode = "none"
    /\ selected = <<>>
    /\ scrollTop = 0
    /\ containerHeight = DefaultContainerHeight
    /\ lastCall = NoCall
    /\ saRun = NoRun

InitSearchIdle == InitSearchWith({<<<<>>, DefaultMaxResults>>})

InitTable ==
    /\ InitSearchIdle
    /\ InitNavIdle
    /\ InitUiIdle
    /\ InitVitalsIdle
    /\ loading = FALSE
    /\ scrollTop = 0
    /\ lastCall = NoCall
    /\ saRun = NoRun

\* a table large enough to virtualize, no selection prop
InitVirtual ==
    /\ InitTable
    /\ rowKey = Null
    /\ data \in {MkData(n) : n \in RowCounts}
    /\ virtualizeThreshold \in {10, DefaultThreshold}
    /\ selMode = "none"
    /\ selected = <<>>
    /\ containerHeight \in (IF shouldVirtualize THEN ClientHeights
                            ELSE {DefaultContainerHeight})

NextVirtual ==
    \/ \E n \in RowCounts : SetData(MkData(n))
    \/ SetLoading
    \/ \E v \in {0, MaxScrollTop} \cup {scrollTop + dv : dv \in ScrollDeltas} : Scroll(v)

SpecVirtual == InitVirtual /\ [][NextVirtual]_vars

\* a small table with a selection prop
InitSelection ==
    /\ InitTable
    /\ rowKey \in {Null, "id", "fn"}
    /\ data \in SmallTables
    /\ virtualizeThreshold = DefaultThreshold
    /\ selMode \in {"single", "multiple"}
    /\ selected = <<>>
    /\ containerHeight = DefaultContainerHeight

NextSelection ==
    \/ \E d \in EditedTables : SetData(d)
    \/ SetLoading
    \/ \E s \in CallerSelections : CallerSetSelection(s)
    \/ SelectAll
    \/ \E i \in 0..(MaxSelRows - 1) : SelectRow(i)

SpecSelection == InitSelection /\ [][NextSelection]_vars

InitSearch ==
    /\ InitDataTableIdle
    /\ InitNavIdle
    /\ InitUiIdle
    /\ InitVitalsIdle
    /\ InitSearchWith(SearchProps)

NextSearch ==
    \/ \E q \in Queries : Type(q)
    \/ Tick
    \/ DebounceFire
    \/ ChangeSearchFn
    \/ \E l \in lookups : \E d \in ResultLists : LookupResolve(l, d)
    \/ \E l \in lookups : LookupReject(l)
    \/ \E i \in 1..2 : ClickOption(i)
    \/ \E key \in {"ArrowDown", "ArrowUp", "Enter", "Escape"} : KeyDown(key)
    \/ handleFocus
    \/ handleBlur

SpecSearch == InitSearch /\ [][NextSearch]_vars

\* a table with sorting and pagination props, rendered by a parent that
\* applies what the callbacks report
InitNav ==
    /\ InitDataTableIdle
    /\ InitSearchIdle
    /\ InitVitalsIdle
    /\ InitUiIdle
    /\ sorting \in SortingProps
    /\ pagination \in PaginationProps
    /\ resetOnResize \in BOOLEAN
    /\ navEvent = NoEvent
    /\ navCalls = <<>>
    /\ sortRun = NoSortRun

NextNav ==
    \/ \E i \in 1..Len(Columns) : ClickHeader(i)
    \/ \E ctl \in PageControls : ClickPageControl(ctl)
    \/ \E size \in PageSizeOptions : ChangePageSize(size)

SpecNav == InitNav /\ [][NextNav]_vars

\* the vitals utilities on their own
InitVitalFns ==
    /\ InitDataTableIdle
    /\ InitSearchIdle
    /\ InitNavIdle
    /\ InitUiIdle
    /\ vitals = DEFAULT_VITALS
    /\ errors = newErrors(DEFAULT_VITALS)
    /\ validated = {}
    /\ edits = 0
    /\ probe \in ProbeInputs

NextVitalFns ==
    \/ CallValidateVitalValue
    \/ CallIsValueNormal
    \/ CallCalculateBMI
    \/ RenderBMI
    \/ CallGetBMICategory
    \/ CallConvertTemperatureTwice

SpecVitalFns == InitVitalFns /\ [][NextVitalFns]_vars

\* the pagination bar alone, on a page of a non-empty table; pageSize and
\* total stay as passed, and a user who keeps clicking Next is served
InitPaging ==
    /\ InitDataTableIdle
    /\ InitSearchIdle
    /\ InitVitalsIdle
    /\ InitUiIdle
    /\ sorting = NoSorting
    /\ pagination \in {pg \in PaginationProps :
                          /\ pg.present
                          /\ pg.total > 0
                          /\ 1 <= pg.page /\ pg.page <= totalPagesOf(pg)}
    /\ resetOnResize \in BOOLEAN
    /\ navEvent = NoEvent
    /\ navCalls = <<>>
    /\ sortRun = NoSortRun

NextPaging == \E ctl \in PageControls : ClickPageControl(ctl)

SpecPaging ==
    InitPaging /\ [][NextPaging]_vars /\ WF_vars(ClickPageControl("next"))

\* one appointment card, on any status and with any of its handlers given
InitAppointment ==
    /\ InitDataTableIdle
    /\ InitSearchIdle
    /\ InitNavIdle
    /\ InitVitalsIdle
    /\ apStatus \in Statuses
    /\ apHandlers \in HandlerSets
    /\ menuOpen = FALSE
    /\ apEvent = NoApEvent
    /\ apCalls = <<>>
    /\ primaryRun = NoPrimaryRun
    /\ availableSlots = <<>>
    /\ slotsDisabled = FALSE
    /\ selectedSlot = 0
    /\ slotEvent = NoSlotEvent
    /\ slotCalls = <<>>

NextAppointment ==
    \/ ClickPrimary
    \/ ClickMore
    \/ \E item \in MenuItems : ClickMenuItem(item)
    \/ MouseDownOutside
    \/ \E status \in Statuses : CallerSetStatus(status)

SpecAppointment == InitAppointment /\ [][NextAppointment]_vars

\* one slot picker
InitSlots ==
    /\ InitDataTableIdle
    /\ InitSearchIdle
    /\ InitNavIdle
    /\ InitVitalsIdle
    /\ apStatus = "scheduled"
    /\ apHandlers = [onStatusChange |-> FALSE, onReschedule |-> FALSE,
                     onCancel |-> FALSE]
    /\ menuOpen = FALSE
    /\ apEvent = NoApEvent
    /\ apCalls = <<>>
    /\ primaryRun = NoPrimaryRun
    /\ availableSlots \in SlotLists
    /\ slotsDisabled \in BOOLEAN
    /\ selectedSlot = 0
    /\ slotEvent = NoSlotEvent
    /\ slotCalls = <<>>

NextSlots ==
    \/ \E i \in 1..MaxSlots : ClickSlot(i)
    \/ CallerSetDisabled

SpecSlots == InitSlots /\ [][NextSlots]_vars

\* the date utilities, each call made once
InitDateFns ==
    /\ InitDataTableIdle
    /\ InitSearchIdle
    /\ InitNavIdle
    /\ InitUiIdle
    /\ vitals = DEFAULT_VITALS
    /\ errors = newErrors(DEFAULT_VITALS)
    /\ validated = {}
    /\ edits = 0
    /\ probe \in AgeInputs

NextDateFns == CallCalculateAge

SpecDateFns == InitDateFns /\ [][NextDateFns]_vars

\* the vital signs form
InitVitalsInput ==
    /\ InitDataTableIdle
    /\ InitSearchIdle
    /\ InitNavIdle
    /\ InitUiIdle
    /\ vitals \in InitialVitals
    /\ errors = newErrors(vitals)
    /\ validated = PassedToValidation(vitals)
    /\ edits = 0
    /\ probe = NoProbe

NextVitalsInput ==
    \/ \E f \in NumberFields : \E val \in TypedValues[f] : handleNumberInput(f, val)
    \/ \E i \in PainLevels : ClickPain(i)
    \/ toggleTempUnit
    \/ toggleWeightUnit
    \/ toggleHeightUnit

SpecVitalsInput == InitVitalsInput /\ [][NextVitalsInput]_vars

----------------------------------------------------------------------------
(* Claims: DataTable virtualization                                         *)

\* C1: whenever virtualization is active and the viewport height is positive,
\* for whatever scroll offset the last scroll event stored, the window
\* satisfies 0 <= startIndex <= endIndex <= rowCount and offsetY = startIndex * ROW_HEIGHT
C1_WindowInvariant ==
    (shouldVirtualize /\ containerHeight > 0 /\ scrollTop >= 0) =>
        /\ 0 <= virtualState.startIndex
        /\ virtualState.startIndex <= virtualState.endIndex
        /\ virtualState.endIndex <= Len(data)
        /\ virtualState.offsetY = virtualState.startIndex * ROW_HEIGHT

\* C2: whenever virtualization is active, the materialized rows are exactly
\* data[startIndex, endIndex) and leading spacer + rows * ROW_HEIGHT + trailing
\* spacer = rowCount * ROW_HEIGHT
C2_ExtentPreserved ==
    shouldVirtualize =>
        /\ Len(visibleRows) = virtualState.endIndex - virtualState.startIndex
        /\ \A i \in 1..Len(visibleRows) : visibleRows[i] = data[virtualState.startIndex + i]
        /\ RenderedExtent = Len(data) * ROW_HEIGHT
----------------------------------------------------------------------------
(* Claims: DataTable selection                                              *)

IsDistinct(s) == \A i, j \in 1..Len(s) : s[i] = s[j] => i = j

\* C7: select-all reports the empty list when the table has rows and every
\* row key is already selected; otherwise it reports exactly the keys of the
\* current rows in row order, dropping previously selected keys of other rows
C7_SelectAllToggle ==
    lastCall.kind = "selectAll" =>
        IF Len(lastCall.keys) > 0
           /\ \A i \in 1..Len(lastCall.keys) : lastCall.keys[i] \in Range(lastCall.prev)
        THEN lastCall.arg = <<>>
        ELSE /\ lastCall.arg = lastCall.keys
             /\ \A k \in Range(lastCall.prev) \ Range(lastCall.keys) :
                    k \notin Range(lastCall.arg)

C7_Witness ==
    /\ lastCall.kind = "selectAll"
    /\ Len(lastCall.keys) >= 2
    /\ Range(lastCall.prev) \ Range(lastCall.keys) # {}
    /\ Range(lastCall.prev) \cap Range(lastCall.keys) # {}
    /\ lastCall.arg = lastCall.keys

\* C8: multiple mode, non-empty table with distinct keys, the parent applying
\* each report: starting from a selection that does not hold all row keys,
\* one select-all click selects exactly the row keys and the second
\* consecutive click empties the selection
C8_SelectAllTwice ==
    (/\ selMode = "multiple"
     /\ saRun.n >= 1
     /\ ~saRun.fromAll
     /\ Len(data) > 0
     /\ IsDistinct(RowKeys(data, rowKey))) =>
        /\ saRun.n = 1 => selected = RowKeys(data, rowKey)
        /\ saRun.n = 2 => selected = <<>>

C8_Witness ==
    /\ selMode = "multiple"
    /\ saRun = [n |-> 2, fromAll |-> FALSE]
    /\ Len(data) = 3
    /\ IsDistinct(RowKeys(data, rowKey))
    /\ lastCall.prev = RowKeys(data, rowKey)
    /\ selected = <<>>

\* C9: multiple mode row click: a key not in the selection is appended at
\* the end of the previous selection; a key in the selection is removed and
\* the remaining keys keep their relative order
C9_MultipleRowClick ==
    (lastCall.kind = "selectRow" /\ lastCall.mode = "multiple") =>
        IF lastCall.key \notin Range(lastCall.prev)
        THEN lastCall.arg = lastCall.prev \o <<lastCall.key>>
        ELSE lastCall.arg = SelectSeq(lastCall.prev, LAMBDA k : k # lastCall.key)

C9_Witness ==
    /\ lastCall.kind = "selectRow"
    /\ lastCall.mode = "multiple"
    /\ Len(lastCall.prev) = 3
    /\ lastCall.prev[2] = lastCall.key
    /\ lastCall.arg = <<lastCall.prev[1], lastCall.prev[3]>>

\* C10: single mode row click: a selected key reports the empty selection,
\* any other key reports the one-element selection of that key, whatever the
\* previous selection was
C10_SingleRowClick ==
    (lastCall.kind = "selectRow" /\ lastCall.mode = "single") =>
        IF lastCall.key \in Range(lastCall.prev)
        THEN lastCall.arg = <<>>
        ELSE lastCall.arg = <<lastCall.key>>

C10_Witness ==
    /\ lastCall.kind = "selectRow"
    /\ lastCall.mode = "single"
    /\ Len(lastCall.prev) = 2
    /\ lastCall.key \notin Range(lastCall.prev)
    /\ lastCall.arg = <<lastCall.key>>
----------------------------------------------------------------------------
(* Claims: MedicationSearch                                                 *)

\* a promise callback ran in this step
SettledNow == lastOutcome' # lastOutcome /\ lastOutcome'.kind # "none"

C4_CalledWhenSettled ==
    [][issued' # issued =>
          \A l \in lookups' : l.id = issued' =>
              /\ sinceChange >= DebounceTicks
              /\ l.query = query
              /\ l.query # ""]_vars

\* C5: per burst of keystrokes at most one lookup result is applied to
\* results, and it is the result for the final query of the burst
C5_OneResultPerBurst ==
    [][(SettledNow /\ lastOutcome'.kind = "resolve" /\ lastOutcome'.applied) =>
          /\ lastOutcome'.burst \notin appliedBursts
          /\ lastOutcome'.final]_vars

\* C6: when the lookup of the current query fails, results become empty and
\* loading false, no lookup is issued again, and nothing else of the
\* component's state changes (there is no error state)
C6_FailureYieldsEmpty ==
    [][(SettledNow /\ lastOutcome'.kind = "reject" /\ ~lastOutcome'.superseded) =>
          /\ results' = <<>>
          /\ searchLoading' = FALSE
          /\ issued' = issued
          /\ lookups' \subseteq lookups
          /\ UNCHANGED <<query, debouncedQuery, isOpen, highlightedIndex,
                         abortControllerRef, cleanupCtl, timerPending>>]_vars

\* the current lookup fails while results of an earlier query are displayed
C6_Witness ==
    /\ lastOutcome.kind = "reject"
    /\ ~lastOutcome.superseded
    /\ lastOutcome.hadResults
    /\ results = <<>>
    /\ ~searchLoading
    /\ lookups = {}

----------------------------------------------------------------------------
\* DataTable sorting and pagination, under SpecNav

ColumnIds == {Columns[i].id : i \in 1..Len(Columns)}
IsSortable(c) == \E i \in 1..Len(Columns) : Columns[i].id = c /\ Columns[i].sortable

\* the least number of pages of size ps that hold t items
LeastCover(t, ps) == CHOOSE n \in 0..t : n * ps >= t /\ (n = 0 \/ (n - 1) * ps < t)

Opposite(d) == IF d = "asc" THEN "desc" ELSE "asc"

\* C11: a click on the header of column c makes no onSort call if c is not
\* sortable; it calls onSort(c, desc) if c is the current sort column and the
\* direction is asc, and onSort(c, asc) in every other case (another column,
\* no matching column, same column currently desc); the rows passed as data
\* stay as they are.
C11_SortToggle ==
    [][navEvent'.kind = "header" =>
          LET c == navEvent'.column
              sameAsc == sorting.column = c /\ sorting.direction = "asc"
          IN  /\ ~IsSortable(c) => navCalls' = <<>>
              /\ (IsSortable(c) /\ sorting.present /\ sameAsc) =>
                     navCalls' = << OnSort(c, "desc") >>
              /\ (IsSortable(c) /\ sorting.present /\ ~sameAsc) =>
                     navCalls' = << OnSort(c, "asc") >>
              /\ data' = data]_vars

C11_Witness ==
    /\ navEvent.kind = "header"
    /\ navCalls = << OnSort(navEvent.column, "desc") >>
    /\ sorting = [present |-> TRUE, column |-> navEvent.column, direction |-> "desc"]

\* C12: with the caller applying every reported sort state, the n-th click in
\* a row on one sortable column leaves the table sorted by that column, in the
\* direction of the first click for odd n and the opposite one for even n; the
\* first click on a column that was not the sort column gives asc (so does the
\* third); once a column is sorted, clicks never lead to an unsorted state.
C12_SortAlternates ==
    /\ [](sortRun.n > 0 =>
             /\ sorting.present
             /\ sorting.column = sortRun.column
             /\ sortRun.fresh => sortRun.first = "asc"
             /\ sorting.direction = IF sortRun.n % 2 = 1 THEN sortRun.first
                                    ELSE Opposite(sortRun.first))
    /\ [][(sorting.present /\ sorting.column \in ColumnIds) =>
             /\ sorting'.present
             /\ sorting'.column \in ColumnIds
             /\ sorting'.direction \in Directions]_vars

C12_Witness ==
    /\ sortRun.n = 3
    /\ sortRun.fresh
    /\ sorting.column = sortRun.column
    /\ sorting.direction = "asc"

\* C13: First and Previous are disabled exactly when page <= 1, Next and Last
\* exactly when page >= totalPages; a click on an enabled control calls
\* onPageChange once, with 1, page - 1, page + 1 or totalPages, a click on a
\* disabled one calls nothing, and nothing but the requested page changes.
C13_PageControls ==
    [][navEvent'.kind = "page" =>
          LET ctl == navEvent'.control
              p == pagination.page
              tp == LeastCover(pagination.total, pagination.pageSize)
              disabled == IF ctl \in {"first", "previous"} THEN p <= 1 ELSE p >= tp
              target == CASE ctl = "first" -> 1
                          [] ctl = "previous" -> p - 1
                          [] ctl = "next" -> p + 1
                          [] ctl = "last" -> tp
          IN  /\ ControlDisabled(pagination, ctl) <=> disabled
              /\ disabled => /\ navCalls' = <<>>
                             /\ pagination' = pagination
              /\ ~disabled => /\ navCalls' = << OnPageChange(target) >>
                              /\ pagination' = [pagination EXCEPT !.page = target]]_vars

C13_Witness ==
    /\ navEvent.kind = "page"
    /\ navEvent.control = "next"
    /\ pagination.page > 1
    /\ navCalls = << OnPageChange(pagination.page) >>

\* C14: for every page, pageSize > 0 and total >= 0, totalPages is
\* ceil(total / pageSize), startItem is (page - 1) * pageSize + 1 and endItem
\* is min(page * pageSize, total); total 50 with pageSize 10 gives 5 pages,
\* page 1 shows 1-10 and page 5 ends at 50.
C14_PaginationArithmetic ==
    pagination.present =>
        LET p == pagination.page
            ps == pagination.pageSize
            t == pagination.total
        IN  /\ ps > 0 /\ t >= 0
            /\ totalPages = LeastCover(t, ps)
            /\ startItem = (p - 1) * ps + 1
            /\ endItem <= p * ps /\ endItem <= t
            /\ endItem = p * ps \/ endItem = t
            /\ (t = 50 /\ ps = 10) =>
                   /\ totalPages = 5
                   /\ p = 1 => (startItem = 1 /\ endItem = 10)
                   /\ p = 5 => endItem = 50

C14_Witness ==
    /\ pagination = [present |-> TRUE, page |-> 5, pageSize |-> 10, total |-> 50]
    /\ navEvent.control = "next"
    /\ totalPages = 5
    /\ startItem = 41
    /\ endItem = 50

\* C15: choosing a page size calls onPageSizeChange with the chosen size and
\* nothing else: onPageChange is not called, and with a caller that only
\* stores the size the page number stays what it was.
C15_PageSizeOnly ==
    [][navEvent'.kind = "pageSize" =>
          /\ navCalls' = << OnPageSizeChange(navEvent'.size) >>
          /\ pagination'.pageSize = navEvent'.size
          /\ pagination'.total = pagination.total
          /\ ~resetOnResize => pagination'.page = pagination.page]_vars

C15_Witness ==
    /\ navEvent.kind = "pageSize"
    /\ navCalls = << OnPageSizeChange(25) >>
    /\ ~resetOnResize
    /\ pagination.pageSize = 25
    /\ pagination.page = 3

----------------------------------------------------------------------------
\* vitals utilities, under SpecVitalFns

\* the range the claims name for a field and unit, "" for none
NamedRange(f, u) ==
    CASE f = "temperature" /\ u = "C" -> "temperatureC"
      [] f = "temperature" /\ u # "C" -> "temperatureF"
      [] f = "weight" /\ u = "kg" -> "weightKg"
      [] f = "weight" /\ u # "kg" -> "weightLb"
      [] f = "height" /\ u = "cm" -> "heightCm"
      [] f = "height" /\ u # "cm" -> "heightIn"
      [] f \notin {"temperature", "weight", "height"} /\ f \in RangeKeys -> f
      [] OTHER -> ""

NormalRanges == {"bloodPressureSystolic", "bloodPressureDiastolic", "heartRate",
                 "temperatureF", "temperatureC", "respiratoryRate",
                 "oxygenSaturation", "painLevel"}

\* C16: validateVitalValue returns an error, carrying the field name and the
\* min, max and unit of the field's range, exactly when the field resolves to
\* a known range and the value is strictly below min or strictly above max;
\* no error for min or max themselves, for an absent or NaN value, or for an
\* unrecognized field; temperature, weight and height resolve by unit.
C16_ValidateVitalValue ==
    (probe.fn = "validateVitalValue" /\ probe.done) =>
        LET rk == NamedRange(probe.field, probe.unit)
            v == probe.value
            outside == /\ v.kind = "number"
                       /\ rk # ""
                       /\ (v.v < VITAL_RANGES[rk].min \/ v.v > VITAL_RANGES[rk].max)
        IN  /\ probe.error.present <=> outside
            /\ probe.error.present =>
                   /\ probe.error.field = probe.field
                   /\ probe.error.min = VITAL_RANGES[rk].min
                   /\ probe.error.max = VITAL_RANGES[rk].max
                   /\ probe.error.unit = VITAL_RANGES[rk].unit

C16_Witness ==
    /\ probe.fn = "validateVitalValue" /\ probe.done
    /\ probe.field = "temperature" /\ probe.unit = "C"
    /\ probe.value = Num(434)
    /\ probe.error = [present |-> TRUE, field |-> "temperature",
                      min |-> 322, max |-> 433, unit |-> "C"]

\* C17: for every field with a normal range and every value within
\* [min, max] but outside [normalMin, normalMax], validateVitalValue returns no
\* error and isValueNormal returns low or high.
C17_TwoTier ==
    LET rk == NamedRange(probe.field, probe.unit)
        v == probe.value
    IN  (/\ probe.done
         /\ rk \in NormalRanges
         /\ v.kind = "number"
         /\ VITAL_RANGES[rk].min <= v.v /\ v.v <= VITAL_RANGES[rk].max
         /\ (v.v < VITAL_RANGES[rk].normalMin \/ v.v > VITAL_RANGES[rk].normalMax)) =>
            /\ probe.fn = "validateVitalValue" => ~probe.error.present
            /\ probe.fn = "isValueNormal" => probe.status \in {"low", "high"}

C17_Witness ==
    /\ probe.fn = "validateVitalValue" /\ probe.done
    /\ probe.field = "heartRate"
    /\ probe.value = Num(1001)
    /\ ~probe.error.present
    /\ isValueNormal("heartRate", Num(1001), probe.unit) = "high"

\* C19: isValueNormal returns unknown for weight, height and any unrecognized
\* field; for every other field low exactly when value < normalMin, high
\* exactly when value > normalMax and normal otherwise (the bounds themselves
\* are normal), with the range of the given unit for temperature.
C19_IsValueNormal ==
    (probe.fn = "isValueNormal" /\ probe.done) =>
        LET rk == NamedRange(probe.field, probe.unit)
            v == probe.value
            low == v.kind = "number" /\ v.v < VITAL_RANGES[rk].normalMin
            high == v.kind = "number" /\ v.v > VITAL_RANGES[rk].normalMax
        IN  IF rk \notin NormalRanges THEN probe.status = "unknown"
            ELSE /\ probe.status = "low" <=> low
                 /\ probe.status = "high" <=> high
                 /\ probe.status = "normal" <=> (~low /\ ~high)

C19_Witness ==
    /\ probe.fn = "isValueNormal" /\ probe.done
    /\ probe.field = "temperature" /\ probe.unit = "C"
    /\ probe.value = Num(361)
    /\ probe.status = "normal"

\* C20: calculateBMI returns null whenever weightKg <= 0 or heightCm <= 0 and
\* a number otherwise (22.9 for 70 kg and 175 cm); a render of
\* VitalSignsInput shows a BMI only when weight and height are both > 0.
C20_BMIGuard ==
    /\ (probe.fn = "calculateBMI" /\ probe.done) =>
           /\ probe.bmi.present <=> (probe.weightKg > 0 /\ probe.heightCm > 0)
           /\ (probe.weightKg = 700 /\ probe.heightCm = 1750) => probe.bmi.v = 229
    /\ (probe.fn = "render" /\ probe.done) =>
           (probe.bmi.present => (probe.given.weight > 0 /\ probe.given.height > 0))

C20_Witness ==
    /\ probe.fn = "calculateBMI" /\ probe.done
    /\ probe.weightKg > 0
    /\ probe.heightCm = 0
    /\ ~probe.bmi.present

----------------------------------------------------------------------------
\* VitalSignsInput, under SpecVitalsInput

C21_BMICategory ==
    (probe.fn = "getBMICategory" /\ probe.done) =>
        /\ (probe.label = "Underweight") = (probe.x < 185)
        /\ (probe.label = "Normal") = (185 <= probe.x /\ probe.x < 250)
        /\ (probe.label = "Overweight") = (250 <= probe.x /\ probe.x < 300)
        /\ (probe.label = "Obese") = (probe.x >= 300)

C21_Witness ==
    /\ probe.fn = "getBMICategory" /\ probe.done
    /\ probe.x = 250
    /\ probe.label = "Overweight"

\* C22: a Fahrenheit reading from 95.0 to 105.0 converted to Celsius and back
\* differs from the reading by at most 0.1.
C22_TemperatureRoundTrip ==
    (probe.fn = "convertTemperature" /\ probe.done) =>
        /\ probe.x \in 950..1050
        /\ Abs(probe.back - probe.x) <= 1

C22_Witness ==
    /\ probe.fn = "convertTemperature" /\ probe.done
    /\ probe.x = 953
    /\ probe.celsius = 352
    /\ probe.back = 954

\* C29: toggling the unit of temperature, weight or height keeps a valid
\* field valid: a set value that passes validateVitalValue in the unit before
\* the toggle passes it in the other unit after the conversion.
C29_ToggleKeepsValid ==
    [][\A f \in {"temperature", "weight", "height"} :
          ( /\ unitOf(vitals', f) # unitOf(vitals, f)
            /\ vitals[f] > 0
            /\ ~validateVitalValue(f, Num(vitals[f]), unitOf(vitals, f)).present )
          => ~validateVitalValue(f, Num(vitals'[f]), unitOf(vitals', f)).present]_vars

----------------------------------------------------------------------------
\* pagination bar, under SpecPaging

\* C30: from a page within 1..totalPages, with pageSize and total fixed and
\* every requested page applied, the four controls keep 1 <= page <=
\* totalPages and 1 <= startItem <= endItem <= total with at most pageSize
\* items shown; and once only Next is clicked, the last page is reached and
\* stays, with Next disabled.
C30_PagingStaysInRange ==
    /\ [](/\ 1 <= pagination.page /\ pagination.page <= totalPages
          /\ 1 <= startItem /\ startItem <= endItem /\ endItem <= pagination.total
          /\ endItem - startItem + 1 <= pagination.pageSize)
    /\ (<>[][navEvent'.control = "next"]_vars
           => <>[](/\ pagination.page = totalPages
                   /\ ControlDisabled(pagination, "next")))

C30_Witness ==
    /\ navEvent.control = "next"
    /\ navCalls = << OnPageChange(totalPages) >>
    /\ pagination.page = totalPages
    /\ totalPages >= 3
    /\ ControlDisabled(pagination, "next")

----------------------------------------------------------------------------
\* MedicationSearch after a selection, under SpecSearch

\* C27: once a medication was selected, the outcome of a lookup issued before
\* the selection, resolved or rejected, leaves results as they are.
C27_NoLookupFromBeforeSelection ==
    [][(SettledNow /\ lastOutcome'.preSelect) => results' = results]_vars

\* C28: highlightedIndex is -1 or an index of the displayed items.
C28_HighlightInRange ==
    \/ highlightedIndex = -1
    \/ (0 <= highlightedIndex /\ highlightedIndex < Len(displayItems))

----------------------------------------------------------------------------
\* AppointmentCard, under SpecAppointment

StatusChain == << "scheduled", "checked-in", "in-progress", "completed" >>
ChainRank(status) == CHOOSE i \in 1..Len(StatusChain) : StatusChain[i] = status
Terminal == {"completed", "cancelled"}

\* C23: on scheduled, checked-in and in-progress the primary button is shown
\* (when onStatusChange is given) and a click on it calls onStatusChange once,
\* with the next status of the chain; with each request applied, n primary
\* clicks move the status n steps along the chain, three of them from
\* scheduled to completed.
C23_StatusChain ==
    /\ [](/\ (apStatus \in {"scheduled", "checked-in", "in-progress"}
                 /\ apHandlers.onStatusChange) => PrimaryRendered
          /\ primaryRun.n > 0 =>
                 /\ primaryRun.from \in {"scheduled", "checked-in", "in-progress"}
                 /\ apStatus = StatusChain[ChainRank(primaryRun.from) + primaryRun.n])
    /\ [][apEvent'.kind = "primary" =>
             /\ apStatus \in {"scheduled", "checked-in", "in-progress"}
             /\ apCalls' = << ApCall("onStatusChange",
                                     StatusChain[ChainRank(apStatus) + 1]) >>
             /\ apStatus' = StatusChain[ChainRank(apStatus) + 1]]_vars

C23_Witness ==
    /\ primaryRun = [from |-> "scheduled", n |-> 3]
    /\ apStatus = "completed"
    /\ apCalls = << ApCall("onStatusChange", "completed") >>

\* C24: on completed and cancelled no button of the card is shown, and no
\* user event reaches the card or invokes onStatusChange, onReschedule or
\* onCancel, also when the menu was open as the status became terminal.
C24_TerminalOffersNothing ==
    /\ [](apStatus \in Terminal =>
             /\ ~FooterRendered
             /\ ~PrimaryRendered
             /\ \A item \in MenuItems : ~MenuItemRendered(item))
    /\ [][(apStatus \in Terminal) =>
             (apCalls' = <<>> /\ apEvent'.kind = "none")]_vars

C24_Witness ==
    /\ apStatus \in Terminal
    /\ menuOpen
    /\ apHandlers = [onStatusChange |-> TRUE, onReschedule |-> TRUE, onCancel |-> TRUE]

----------------------------------------------------------------------------
\* TimeSlotPicker, under SpecSlots

\* C25: a click on a slot calls onSelect exactly when the slot is available
\* and the picker is not disabled, once and with that slot; any other click
\* calls nothing and leaves the selection alone.
C25_OnSelectOnlyWhenAvailable ==
    [][slotEvent'.kind = "click" =>
          LET slot == availableSlots[slotEvent'.index]
          IN  IF slot.available /\ ~slotsDisabled
              THEN slotCalls' = << slot >> /\ selectedSlot' = slot.id
              ELSE slotCalls' = <<>> /\ selectedSlot' = selectedSlot]_vars

C25_Witness ==
    /\ slotsDisabled
    /\ slotEvent.kind = "click"
    /\ availableSlots[slotEvent.index].available
    /\ selectedSlot \notin {0, slotEvent.index}
    /\ slotCalls = <<>>

----------------------------------------------------------------------------
\* date utilities, under SpecDateFns

\* C26: for dob <= referenceDate, calculateAge is the difference of the
\* calendar years, less one when the month and day of the reference date come
\* before those of the birth date.
C26_CalendarAge ==
    (probe.fn = "calculateAge" /\ probe.done) =>
        probe.age = probe.referenceDate.y - probe.dob.y -
            (IF \/ probe.referenceDate.m < probe.dob.m
                \/ /\ probe.referenceDate.m = probe.dob.m
                   /\ probe.referenceDate.d < probe.dob.d
             THEN 1 ELSE 0)

====
